---- MODULE Spec2Model ----
(***************************************************************************)
(* Model of src/code.py: process_data (the compliance engine) and the part *)
(* of main that calls it and bins the score into a category.               *)
(*                                                                         *)
(* Strings are sequences of one-character strings, so that strip/upper and *)
(* the date formats are computed character by character.  Scores are kept  *)
(* in hundredths (100.0 is 10000), which is exact for round(x, 2).         *)
(*                                                                         *)
(* The datasets have headers that stay distinct after normalisation and    *)
(* amounts that are whole numbers; headers are text.  The numeric score    *)
(* and total columns are kept beside their formatted forms, which replace  *)
(* them in the returned table.                                             *)
(***************************************************************************)
EXTENDS Integers, Sequences, FiniteSets, TLC

VARIABLES df_input, tahun_pajak, jenis_pajak, pc, columns, kolom, tmt,
          col_idx, payment_cols, bulan_aktif, jumlah, kepatuhan,
          kepatuhan_fmt, error, result, kategori, total

vars == <<df_input, tahun_pajak, jenis_pajak, pc, columns, kolom, tmt,
          col_idx, payment_cols, bulan_aktif, jumlah, kepatuhan,
          kepatuhan_fmt, error, result, kategori, total>>

(***************************************************************************)
(* Bounds of the model.                                                    *)
(***************************************************************************)
\* rows of a dataset in the column-detection scenarios
MaxRows == 2
\* candidate (non-canonical) columns in the column-detection scenarios
MaxCand == 2
\* payment columns of the single-row scoring scenarios
MaxPayCols == 5

(***************************************************************************)
(* Characters and strings.                                                 *)
(***************************************************************************)
LowerChars == <<"a","b","c","d","e","f","g","h","i","j","k","l","m",
                "n","o","p","q","r","s","t","u","v","w","x","y","z">>
UpperChars == <<"A","B","C","D","E","F","G","H","I","J","K","L","M",
                "N","O","P","Q","R","S","T","U","V","W","X","Y","Z">>
DigitChars == <<"0","1","2","3","4","5","6","7","8","9">>

Range(s) == {s[i] : i \in DOMAIN s}

\* str.upper() on one character
UpperChar(c) ==
    IF \E i \in DOMAIN LowerChars : LowerChars[i] = c
    THEN UpperChars[CHOOSE i \in DOMAIN LowerChars : LowerChars[i] = c]
    ELSE c

\* str.upper()
StrUpper(s) == [i \in 1..Len(s) |-> UpperChar(s[i])]

RECURSIVE LStrip(_)
LStrip(s) == IF s # <<>> /\ Head(s) = " " THEN LStrip(Tail(s)) ELSE s

RECURSIVE RStrip(_)
RStrip(s) ==
    IF s # <<>> /\ s[Len(s)] = " " THEN RStrip(SubSeq(s, 1, Len(s) - 1)) ELSE s

\* str.strip()
StrStrip(s) == RStrip(LStrip(s))

\* df.columns.str.strip().str.upper()
NormalizeHeader(h) == StrUpper(StrStrip(h))

IsDigit(c) == \E i \in DOMAIN DigitChars : DigitChars[i] = c
DigitVal(c) == (CHOOSE i \in DOMAIN DigitChars : DigitChars[i] = c) - 1

AllDigits(s) == \A i \in DOMAIN s : IsDigit(s[i])

RECURSIVE DigitsVal(_)
DigitsVal(s) ==
    IF s = <<>> THEN 0
    ELSE 10 * DigitsVal(SubSeq(s, 1, Len(s) - 1)) + DigitVal(s[Len(s)])

RECURSIVE NatToStr(_)
NatToStr(n) ==
    IF n < 10 THEN <<DigitChars[n + 1]>>
    ELSE NatToStr(n \div 10) \o <<DigitChars[(n % 10) + 1]>>

(***************************************************************************)
(* Timestamps and the chained header parse of process_data.                *)
(***************************************************************************)
NaT == [year |-> 0, month |-> 0, day |-> 0]
Timestamp(y, m, d) == [year |-> y, month |-> m, day |-> d]
IsNa(t) == t = NaT

MonthAbbr == << <<"J","A","N">>, <<"F","E","B">>, <<"M","A","R">>,
                <<"A","P","R">>, <<"M","A","Y">>, <<"J","U","N">>,
                <<"J","U","L">>, <<"A","U","G">>, <<"S","E","P">>,
                <<"O","C","T">>, <<"N","O","V">>, <<"D","E","C">> >>

\* %b is matched without regard to case; 0 when s is no month abbreviation
MonthOfAbbr(s) ==
    LET u == StrUpper(s)
    IN  IF \E i \in DOMAIN MonthAbbr : MonthAbbr[i] = u
        THEN CHOOSE i \in DOMAIN MonthAbbr : MonthAbbr[i] = u
        ELSE 0

IsLeap(y) == (y % 4 = 0 /\ y % 100 # 0) \/ y % 400 = 0

DaysInMonth(y, m) ==
    IF m = 2 THEN (IF IsLeap(y) THEN 29 ELSE 28)
    ELSE IF m \in {4, 6, 9, 11} THEN 30 ELSE 31

ValidDate(y, m, d) == y >= 1 /\ m \in 1..12 /\ d >= 1 /\ d <= DaysInMonth(y, m)

\* %y: 00..68 are 2000..2068, 69..99 are 1969..1999
TwoDigitYear(yy) == IF yy <= 68 THEN 2000 + yy ELSE 1900 + yy

\* pd.to_datetime(col_str, format='%b-%y', errors='coerce')
ParseBY(s) ==
    IF /\ Len(s) = 6
       /\ MonthOfAbbr(SubSeq(s, 1, 3)) # 0
       /\ s[4] = "-"
       /\ AllDigits(SubSeq(s, 5, 6))
    THEN Timestamp(TwoDigitYear(DigitsVal(SubSeq(s, 5, 6))),
                   MonthOfAbbr(SubSeq(s, 1, 3)), 1)
    ELSE NaT

\* pd.to_datetime(col_str, format='%b %Y', errors='coerce')
ParseBSpaceY(s) ==
    IF /\ Len(s) = 8
       /\ MonthOfAbbr(SubSeq(s, 1, 3)) # 0
       /\ s[4] = " "
       /\ AllDigits(SubSeq(s, 5, 8))
       /\ DigitsVal(SubSeq(s, 5, 8)) >= 1
    THEN Timestamp(DigitsVal(SubSeq(s, 5, 8)), MonthOfAbbr(SubSeq(s, 1, 3)), 1)
    ELSE NaT

\* pd.to_datetime(col_str, format='%m/%d/%Y', errors='coerce'), two-digit
\* month and day
ParseMDY(s) ==
    IF /\ Len(s) = 10
       /\ AllDigits(SubSeq(s, 1, 2)) /\ s[3] = "/"
       /\ AllDigits(SubSeq(s, 4, 5)) /\ s[6] = "/"
       /\ AllDigits(SubSeq(s, 7, 10))
       /\ ValidDate(DigitsVal(SubSeq(s, 7, 10)), DigitsVal(SubSeq(s, 1, 2)),
                    DigitsVal(SubSeq(s, 4, 5)))
    THEN Timestamp(DigitsVal(SubSeq(s, 7, 10)), DigitsVal(SubSeq(s, 1, 2)),
                   DigitsVal(SubSeq(s, 4, 5)))
    ELSE NaT

\* the ISO form YYYY-MM-DD
ParseISO(s) ==
    IF /\ Len(s) = 10
       /\ AllDigits(SubSeq(s, 1, 4)) /\ s[5] = "-"
       /\ AllDigits(SubSeq(s, 6, 7)) /\ s[8] = "-"
       /\ AllDigits(SubSeq(s, 9, 10))
       /\ ValidDate(DigitsVal(SubSeq(s, 1, 4)), DigitsVal(SubSeq(s, 6, 7)),
                    DigitsVal(SubSeq(s, 9, 10)))
    THEN Timestamp(DigitsVal(SubSeq(s, 1, 4)), DigitsVal(SubSeq(s, 6, 7)),
                   DigitsVal(SubSeq(s, 9, 10)))
    ELSE NaT

\* pd.to_datetime(col_str, errors='coerce'): the format-free parse, for the
\* shapes of header the datasets below hold (ISO dates, month-name and year,
\* slash dates); any other text is NaT.
ParseGeneric(s) ==
    IF ~IsNa(ParseISO(s)) THEN ParseISO(s)
    ELSE IF ~IsNa(ParseBSpaceY(s)) THEN ParseBSpaceY(s)
    ELSE ParseMDY(s)

\* lines 48-56: the chain, each strategy tried only while dt is still NaT
ParseHeader(col) ==
    LET col_str == StrStrip(col)
        dt1 == ParseBY(col_str)
        dt2 == IF IsNa(dt1) THEN ParseGeneric(col_str) ELSE dt1
        dt3 == IF IsNa(dt2) THEN ParseBSpaceY(col_str) ELSE dt2
        dt4 == IF IsNa(dt3) THEN ParseMDY(col_str) ELSE dt3
    IN  dt4

(***************************************************************************)
(* Cells of the table.  kind is "num" (a number), "numstr" (text that      *)
(* parses as a number), "text", "empty" (a missing cell) or "date".        *)
(***************************************************************************)
Num(v) == [kind |-> "num", val |-> v, ts |-> NaT]
NumStr(v) == [kind |-> "numstr", val |-> v, ts |-> NaT]
Text == [kind |-> "text", val |-> 0, ts |-> NaT]
Empty == [kind |-> "empty", val |-> 0, ts |-> NaT]
DateCell(y, m, d) == [kind |-> "date", val |-> 0, ts |-> Timestamp(y, m, d)]

\* pd.to_numeric(x, errors='coerce').notna()
NumericNotNa(cell) == cell.kind \in {"num", "numstr"}

\* pd.to_numeric(x, errors='coerce').gt(0): NaN compares false
NumericGt0(cell) == NumericNotNa(cell) /\ cell.val > 0

\* pd.to_datetime(df['TMT'], errors='coerce') on one cell
ToDatetime(cell) == IF cell.kind = "date" THEN cell.ts ELSE NaT

(***************************************************************************)
(* Schema resolution: alias_map and find_column.                           *)
(***************************************************************************)
S_NM_UNIT == <<"N","M"," ","U","N","I","T">>
S_NAMA_UNIT == <<"N","A","M","A"," ","U","N","I","T">>
S_UPPPD == <<"U","P","P","P","D">>
S_UNIT == <<"U","N","I","T">>
S_UNIT_PAJAK == <<"U","N","I","T"," ","P","A","J","A","K">>
S_STATUS == <<"S","T","A","T","U","S">>
S_TMT == <<"T","M","T">>
S_KLASIFIKASI == <<"K","L","A","S","I","F","I","K","A","S","I">>
S_KATEGORI == <<"K","A","T","E","G","O","R","I">>
S_JENIS == <<"J","E","N","I","S">>
S_HIBURAN == <<"H","I","B","U","R","A","N">>

alias_map ==
    [nm_unit |-> <<S_NM_UNIT, S_NAMA_UNIT, S_UPPPD, S_UNIT, S_UNIT_PAJAK>>,
     status |-> <<S_STATUS>>,
     tmt |-> <<S_TMT>>,
     klasifikasi |-> <<S_KLASIFIKASI, S_KATEGORI, S_JENIS>>]

\* Python's None; like the empty string it is falsy
None == <<>>
Truthy(x) == x # <<>>

RECURSIVE find_column(_, _)
find_column(possible_names, cols) ==
    IF possible_names = <<>> THEN None
    ELSE IF Head(possible_names) \in Range(cols) THEN Head(possible_names)
    ELSE find_column(Tail(possible_names), cols)

\* jenis_pajak.upper() == "HIBURAN"
IsHiburan(jenis) == StrUpper(jenis) = S_HIBURAN

\* line 29 with kolom_tmt left out of the list
RequiredResolved_NoTmt(k) == Truthy(k.nm_unit) /\ Truthy(k.status)

\* line 29: all([kolom_nm_unit, kolom_status, kolom_tmt])
RequiredResolved(k) == Truthy(k.nm_unit) /\ Truthy(k.status) /\ Truthy(k.tmt)

\* line 32 with the test left out
KlasifikasiMissing_Never(jenis, k) == FALSE

\* line 32: the condition under which the KLASIFIKASI error is raised
KlasifikasiMissing(jenis, k) == IsHiburan(jenis) /\ ~Truthy(k.klasifikasi)

\* the fields the message of line 30 mentions
SchemaErrorFields == {"NM UNIT", "STATUS", "TMT"}

\* lines 35-40: df.rename(columns={...})
RenameColumn(col, k) ==
    IF col = k.nm_unit THEN S_NM_UNIT
    ELSE IF col = k.status THEN S_STATUS
    ELSE IF col = k.tmt THEN S_TMT
    ELSE IF Truthy(k.klasifikasi) /\ col = k.klasifikasi THEN S_KLASIFIKASI
    ELSE col

(***************************************************************************)
(* Payment-column detection, lines 44-61.                                  *)
(***************************************************************************)
\* line 46
IsCanonical(col) == col \in {S_NM_UNIT, S_STATUS, S_TMT, S_KLASIFIKASI}

\* line 60: numeric_vals.notna().sum() > 0
HasNumericCell(cells) == \E r \in DOMAIN cells : NumericNotNa(cells[r])

\* lines 46-61 without the numeric test of lines 59-60
IsPaymentColumn_NoNumericTest(col, cells, tahun) ==
    /\ ~IsCanonical(col)
    /\ ~IsNa(ParseHeader(col))
    /\ ParseHeader(col).year = tahun

\* lines 46-61 for one column: whether col is appended to payment_cols
IsPaymentColumn(col, cells, tahun) ==
    /\ ~IsCanonical(col)
    /\ ~IsNa(ParseHeader(col))
    /\ ParseHeader(col).year = tahun
    /\ HasNumericCell(cells)

(***************************************************************************)
(* Active months, lines 70-77.                                             *)
(***************************************************************************)
TsLess(a, b) ==
    \/ a.year < b.year
    \/ a.year = b.year /\ a.month < b.month
    \/ a.year = b.year /\ a.month = b.month /\ a.day < b.day

\* Python's max(a, b): b only when it is greater than a
TsMax(a, b) == IF TsLess(a, b) THEN b ELSE a

IntMax(a, b) == IF b > a THEN b ELSE a

\* line 76 without the + 1
ActiveMonths_NoPlusOne(t, tahun) ==
    IF IsNa(t) THEN 0
    ELSE LET start == TsMax(Timestamp(tahun, 1, 1), t)
             end == Timestamp(tahun, 12, 31)
         IN  IntMax(0, (end.year - start.year) * 12 + (end.month - start.month))

ActiveMonths(t, tahun) ==
    IF IsNa(t) THEN 0
    ELSE LET start == TsMax(Timestamp(tahun, 1, 1), t)
             end == Timestamp(tahun, 12, 31)
         IN  IntMax(0, (end.year - start.year) * 12
                       + (end.month - start.month) + 1)

(***************************************************************************)
(* Scoring, lines 80-101.                                                  *)
(***************************************************************************)
\* line 80: pd.to_numeric(x, errors='coerce').gt(0).sum()
JumlahPembayaran(cells) == Cardinality({k \in DOMAIN cells : NumericGt0(cells[k])})

\* line 85: payments.gt(0).astype(int).values (after fillna(0))
Bayar(cells) == [k \in DOMAIN cells |-> IF NumericGt0(cells[k]) THEN 1 ELSE 0]

\* the threshold of line 97
GapLimit == 3

\* lines 86-94 with the comparison of line 91 inverted
RECURSIVE GapLoop_InvertedMax(_, _, _, _)
GapLoop_InvertedMax(bayar, i, gap, max_gap) ==
    IF i > Len(bayar) THEN max_gap
    ELSE IF bayar[i] = 0
         THEN GapLoop_InvertedMax(bayar, i + 1, gap + 1,
                                  IF gap + 1 < max_gap THEN gap + 1 ELSE max_gap)
         ELSE GapLoop_InvertedMax(bayar, i + 1, 0, max_gap)

\* lines 86-94: the single pass; returns max_gap
RECURSIVE GapLoop(_, _, _, _)
GapLoop(bayar, i, gap, max_gap) ==
    IF i > Len(bayar) THEN max_gap
    ELSE IF bayar[i] = 0
         THEN GapLoop(bayar, i + 1, gap + 1,
                      IF gap + 1 > max_gap THEN gap + 1 ELSE max_gap)
         ELSE GapLoop(bayar, i + 1, 0, max_gap)

\* round(n / d * 100, 2) in hundredths, ties to even
RoundPercent(n, d) ==
    LET q == (n * 10000) \div d
        r == (n * 10000) % d
    IN  IF 2 * r < d THEN q
        ELSE IF 2 * r > d THEN q + 1
        ELSE IF q % 2 = 0 THEN q ELSE q + 1

\* lines 95-98 with the two tests in the other order
hitung_kepatuhan_GapFirst(cells, aktif, jumlah_pembayaran) ==
    LET max_gap == GapLoop(Bayar(cells), 1, 0, 0)
    IN  IF max_gap < GapLimit THEN 10000
        ELSE IF aktif = 0 THEN 0
        ELSE RoundPercent(jumlah_pembayaran, aktif)

\* lines 82-99, in hundredths
hitung_kepatuhan(cells, aktif, jumlah_pembayaran) ==
    LET max_gap == GapLoop(Bayar(cells), 1, 0, 0)
    IN  IF aktif = 0 THEN 0
        ELSE IF max_gap < GapLimit THEN 10000
        ELSE RoundPercent(jumlah_pembayaran, aktif)

\* line 66: the sum of the numeric cells of a row, NaN skipped
RECURSIVE SumNumeric(_)
SumNumeric(cells) ==
    IF cells = <<>> THEN 0
    ELSE (IF NumericNotNa(Head(cells)) THEN Head(cells).val ELSE 0)
         + SumNumeric(Tail(cells))

\* the digits of n in groups of three
RECURSIVE GroupThousands(_)
GroupThousands(n) ==
    IF n < 1000 THEN NatToStr(n)
    ELSE GroupThousands(n \div 1000) \o <<",">> \o
         <<DigitChars[((n % 1000) \div 100) + 1],
           DigitChars[((n % 100) \div 10) + 1], DigitChars[(n % 10) + 1]>>

\* line 103: f"{x:,.2f}" of a whole amount
FormatTotal(v) ==
    (IF v < 0 THEN <<"-">> ELSE <<>>) \o GroupThousands(IF v < 0 THEN -v ELSE v)
    \o <<".", "0", "0">>

\* line 104: f"{x:.2f}" of a score given in hundredths
FormatScore(h) ==
    NatToStr(h \div 100) \o <<".">> \o
    <<DigitChars[((h % 100) \div 10) + 1], DigitChars[(h % 10) + 1]>>

\* line 160: .astype(float) of the formatted score, back in hundredths
ParseScore(s) ==
    LET dot == CHOOSE i \in DOMAIN s : s[i] = "."
    IN  DigitsVal(SubSeq(s, 1, dot - 1)) * 100
        + DigitsVal(SubSeq(s, dot + 1, Len(s)))

\* lines 160-162: pd.cut(bins=[-1,50,99.9,100], labels=[...]); the bins are
\* open on the left and closed on the right, a value in none of them is NaN
Kategori(h) ==
    IF -100 < h /\ h <= 5000 THEN "Tidak Patuh"
    ELSE IF 5000 < h /\ h <= 9990 THEN "Kurang Patuh"
    ELSE IF 9990 < h /\ h <= 10000 THEN "Patuh"
    ELSE "NaN"

(***************************************************************************)
(* Inputs: what main hands to process_data.                                *)
(***************************************************************************)
\* the options of the selectbox of main
J_MAKAN_MINUM == <<"M","A","K","A","N"," ","M","I","N","U","M">>
J_JASA_KESENIAN_DAN_HIBURAN == <<"J","A","S","A"," ","K","E","S","E","N","I","A","N"," ","D","A","N"," ","H","I","B","U","R","A","N">>
J_LAINNYA == <<"L","A","I","N","N","Y","A">>
SelectboxJenisPajak == {J_MAKAN_MINUM, J_JASA_KESENIAN_DAN_HIBURAN, J_LAINNYA}
\* the option of the selectbox that stands for entertainment
EntertainmentVariant == J_JASA_KESENIAN_DAN_HIBURAN
\* a value only a direct caller of process_data can pass
J_Hiburan == <<"H","i","b","u","r","a","n">>
JenisInputs == SelectboxJenisPajak \cup {J_Hiburan}

\* headers as they stand in the uploaded sheet
H_NM_UNIT == <<"N","M"," ","U","N","I","T">>
H_upppd == <<" ","u","p","p","p","d"," ">>
H_Status == <<"S","t","a","t","u","s">>
H_tmt == <<"t","m","t"," ">>
H_Kategori == <<"K","a","t","e","g","o","r","i">>
H_Jan24 == <<"J","a","n","-","2","4">>
H_feb24 == <<" ","f","e","b","-","2","4">>
H_Mar2024 == <<"M","a","r"," ","2","0","2","4">>
H_Apr2024 == <<"0","4","/","0","1","/","2","0","2","4">>
H_May2024 == <<"2","0","2","4","-","0","5","-","0","1">>
H_Jun24 == <<"J","U","N","-","2","4">>
H_Jan25 == <<"J","a","n","-","2","5">>
H_Total == <<"T","o","t","a","l">>

\* the payment headers of the scoring scenarios, left to right
PayHeaders == <<H_Jan24, H_feb24, H_Mar2024, H_Apr2024, H_May2024, H_Jun24>>
\* the candidate headers of the detection scenarios
CandHeaders == {H_Jan24, H_May2024, H_Jan25, H_Total}

TahunInputs == {2024, 2025}

IntMin(a, b) == IF a < b THEN a ELSE b

\* the sequences of at most n distinct elements of U
RECURSIVE DistinctSeqs(_, _)
DistinctSeqs(U, n) ==
    IF n = 0 THEN {<<>>}
    ELSE LET S == DistinctSeqs(U, n - 1)
         IN  S \cup UNION {{Append(s, u) : u \in U \ Range(s)} :
                           s \in {t \in S : Len(t) = n - 1}}

\* a dataset: nm, st, tm, kl and pay are sequences of headers (empty when the
\* column is absent); tmtcells[r] is row r's activation-date cell and
\* paycells[r] row r's cells under the headers of pay
MkDataset(nm, st, tm, kl, pay, tmtcells, paycells) ==
    [columns |-> nm \o st \o tm \o kl \o pay,
     rows |-> [r \in DOMAIN tmtcells |->
                 [i \in 1..Len(nm) |-> Text] \o [i \in 1..Len(st) |-> Text]
                 \o [i \in 1..Len(tm) |-> tmtcells[r]]
                 \o [i \in 1..Len(kl) |-> Text] \o paycells[r]]]

\* schema scenarios: every combination of present and absent canonical
\* columns, each tax type, one row
SchemaInputs ==
    {[df |-> MkDataset(nm, st, tm, kl, pay, <<DateCell(2024, 3, 15)>>,
                       <<[i \in 1..Len(pay) |-> Num(5)]>>),
      tahun |-> 2024, jenis |-> j] :
        nm \in {<<>>, <<H_NM_UNIT>>, <<H_upppd>>}, st \in {<<>>, <<H_Status>>},
        tm \in {<<>>, <<H_tmt>>}, kl \in {<<>>, <<H_Kategori>>},
        pay \in {<<>>, <<H_Jan24>>}, j \in JenisInputs}

\* the cell of row r of a column with the given profile, in a table of n rows
ProfileCell(profile, r, n) ==
    IF profile = "text" THEN (IF r = 1 THEN Text ELSE Empty)
    ELSE IF profile = "last" THEN (IF r = n THEN NumStr(7) ELSE Empty)
    ELSE Num(r - 2)

\* the activation-date cell of row r in the detection scenarios
DetectTmtCell(r) ==
    IF r = 1 THEN DateCell(2024, 1, 1)
    ELSE IF r = 2 THEN Text
    ELSE DateCell(2025, 2, 1)

\* detection scenarios: the canonical columns are present, the candidate
\* columns and their contents vary
DetectInputs ==
    UNION {{[df |-> MkDataset(<<H_upppd>>, <<H_Status>>, <<H_tmt>>, <<H_Kategori>>,
                              pay, [r \in 1..MaxRows |-> DetectTmtCell(r)],
                              [r \in 1..MaxRows |->
                                 [k \in 1..Len(pay) |-> ProfileCell(prof[k], r, MaxRows)]]),
             tahun |-> t, jenis |-> J_MAKAN_MINUM] :
               prof \in [1..Len(pay) -> {"text", "last", "num"}], t \in TahunInputs} :
           pay \in DistinctSeqs(CandHeaders, MaxCand)}

\* the activation-date cells of the scoring scenarios
ScoreTmtCells ==
    {Empty, DateCell(2023, 6, 15), DateCell(2024, 1, 1), DateCell(2024, 3, 10),
     DateCell(2024, 10, 1), DateCell(2024, 11, 30), DateCell(2024, 12, 31),
     DateCell(2025, 1, 1), DateCell(2025, 2, 14)}

ScorePayHeaders == SubSeq(PayHeaders, 1, IntMin(MaxPayCols, Len(PayHeaders)))

\* scoring scenarios: one row, the payment cells and the activation date vary
ScoreInputs ==
    {[df |-> MkDataset(<<H_NM_UNIT>>, <<H_Status>>, <<H_tmt>>, <<>>,
                       ScorePayHeaders, <<tc>>, <<cells>>),
      tahun |-> 2024, jenis |-> J_MAKAN_MINUM] :
        tc \in ScoreTmtCells,
        cells \in [1..Len(ScorePayHeaders) -> {Num(5), Num(0), Text}]}

Inputs == SchemaInputs \cup DetectInputs \cup ScoreInputs

(***************************************************************************)
(* The state machine: main calls process_data, which runs top to bottom.   *)
(***************************************************************************)
NoKolom == [nm_unit |-> None, status |-> None, tmt |-> None, klasifikasi |-> None]
NoError == [kind |-> "", fields |-> {}]
NoResult == [returned |-> FALSE, columns |-> <<>>, payment_cols |-> <<>>,
             total |-> <<>>, kepatuhan |-> <<>>]

NRows == Len(df_input.rows)

\* the position of a header in df.columns
ColIndex(col) == CHOOSE i \in DOMAIN columns : columns[i] = col

\* df[col] as the sequence of its cells
ColumnCells(i) == [r \in 1..NRows |-> df_input.rows[r][i]]

\* row[payment_cols]
PaymentCells(r) ==
    [k \in 1..Len(payment_cols) |-> df_input.rows[r][ColIndex(payment_cols[k])]]

Init ==
    /\ \E inp \in Inputs :
          /\ df_input = inp.df
          /\ tahun_pajak = inp.tahun
          /\ jenis_pajak = inp.jenis
    /\ pc = "start"
    /\ columns = <<>>
    /\ kolom = NoKolom
    /\ tmt = <<>>
    /\ col_idx = 0
    /\ payment_cols = <<>>
    /\ bulan_aktif = <<>>
    /\ jumlah = <<>>
    /\ kepatuhan = <<>>
    /\ kepatuhan_fmt = <<>>
    /\ error = NoError
    /\ result = NoResult
    /\ kategori = <<>>
    /\ total = <<>>

\* lines 8-27: copy, normalise the headers, look the canonical columns up
Resolve ==
    /\ pc = "start"
    /\ LET cols == [i \in DOMAIN df_input.columns |->
                      NormalizeHeader(df_input.columns[i])]
       IN  /\ columns' = cols
           /\ kolom' = [nm_unit |-> find_column(alias_map.nm_unit, cols),
                        status |-> find_column(alias_map.status, cols),
                        tmt |-> find_column(alias_map.tmt, cols),
                        klasifikasi |->
                            IF IsHiburan(jenis_pajak)
                            THEN find_column(alias_map.klasifikasi, cols)
                            ELSE None]
    /\ pc' = "check_required"
    /\ UNCHANGED <<df_input, tahun_pajak, jenis_pajak, tmt, col_idx, payment_cols,
                   bulan_aktif, jumlah, kepatuhan, kepatuhan_fmt, error, result,
                   kategori, total>>

\* a raise inside process_data, caught by main (lines 132-134): st.stop()
Raise(kind, fields) ==
    /\ error' = [kind |-> kind, fields |-> fields]
    /\ pc' = "failed"
    /\ UNCHANGED <<df_input, tahun_pajak, jenis_pajak, columns, kolom, tmt, col_idx,
                   payment_cols, bulan_aktif, jumlah, kepatuhan, kepatuhan_fmt,
                   result, kategori, total>>

Goto(next) ==
    /\ pc' = next
    /\ UNCHANGED <<df_input, tahun_pajak, jenis_pajak, columns, kolom, tmt, col_idx,
                   payment_cols, bulan_aktif, jumlah, kepatuhan, kepatuhan_fmt,
                   error, result, kategori, total>>

\* lines 29-30
RaiseSchemaError ==
    /\ pc = "check_required"
    /\ ~RequiredResolved(kolom)
    /\ Raise("SchemaError", SchemaErrorFields)

PassRequired ==
    /\ pc = "check_required"
    /\ RequiredResolved(kolom)
    /\ Goto("check_klasifikasi")

\* lines 32-33
RaiseKlasifikasiError ==
    /\ pc = "check_klasifikasi"
    /\ KlasifikasiMissing(jenis_pajak, kolom)
    /\ Raise("ConditionalSchemaError", {"KLASIFIKASI"})

PassKlasifikasi ==
    /\ pc = "check_klasifikasi"
    /\ ~KlasifikasiMissing(jenis_pajak, kolom)
    /\ Goto("rename")

\* lines 35-44: rename the matched headers, parse the TMT column; df['TMT']
\* is a KeyError when no column carries that name
Rename ==
    /\ pc = "rename"
    /\ LET renamed == [i \in DOMAIN columns |-> RenameColumn(columns[i], kolom)]
       IN  IF S_TMT \in Range(renamed)
           THEN /\ columns' = renamed
                /\ tmt' = [r \in 1..NRows |->
                             ToDatetime(df_input.rows[r][CHOOSE i \in DOMAIN renamed :
                                                             renamed[i] = S_TMT])]
                /\ payment_cols' = <<>>
                /\ col_idx' = 1
                /\ pc' = "detect"
                /\ error' = error
           ELSE /\ columns' = renamed
                /\ error' = [kind |-> "KeyError", fields |-> {"TMT"}]
                /\ pc' = "failed"
                /\ UNCHANGED <<tmt, payment_cols, col_idx>>
    /\ UNCHANGED <<df_input, tahun_pajak, jenis_pajak, kolom, bulan_aktif, jumlah,
                   kepatuhan, kepatuhan_fmt, result, kategori, total>>

\* lines 45-61: one iteration of the loop over df.columns
DetectColumn ==
    /\ pc = "detect"
    /\ col_idx <= Len(columns)
    /\ payment_cols' =
          IF IsPaymentColumn(columns[col_idx], ColumnCells(col_idx), tahun_pajak)
          THEN Append(payment_cols, columns[col_idx])
          ELSE payment_cols
    /\ col_idx' = col_idx + 1
    /\ UNCHANGED <<df_input, tahun_pajak, jenis_pajak, pc, columns, kolom, tmt,
                   bulan_aktif, jumlah, kepatuhan, kepatuhan_fmt, error, result,
                   kategori, total>>

\* line 63 with the test left out
NoPaymentColumns_Never(cols) == FALSE

\* line 63: not payment_cols
NoPaymentColumns(cols) == cols = <<>>

\* lines 63-64
RaiseNoPaymentColumns ==
    /\ pc = "detect"
    /\ col_idx > Len(columns)
    /\ NoPaymentColumns(payment_cols)
    /\ Raise("NoPaymentColumnsError", {})

\* lines 63 and 66: the scan found a column; the 'Total Pembayaran' column
PassPaymentColumns ==
    /\ pc = "detect"
    /\ col_idx > Len(columns)
    /\ ~NoPaymentColumns(payment_cols)
    /\ total' = [r \in 1..NRows |-> SumNumeric(PaymentCells(r))]
    /\ pc' = "bulan_aktif"
    /\ UNCHANGED <<df_input, tahun_pajak, jenis_pajak, columns, kolom, tmt, col_idx,
                   payment_cols, bulan_aktif, jumlah, kepatuhan, kepatuhan_fmt,
                   error, result, kategori>>

\* lines 69-77: one iteration of the loop over the rows
BulanAktifRow ==
    /\ pc = "bulan_aktif"
    /\ Len(bulan_aktif) < NRows
    /\ bulan_aktif' = Append(bulan_aktif,
                             ActiveMonths(tmt[Len(bulan_aktif) + 1], tahun_pajak))
    /\ UNCHANGED <<df_input, tahun_pajak, jenis_pajak, pc, columns, kolom, tmt,
                   col_idx, payment_cols, jumlah, kepatuhan, kepatuhan_fmt, error,
                   result, kategori, total>>

\* lines 78-80: after the loop, the 'Jumlah Pembayaran' column
CountPayments ==
    /\ pc = "bulan_aktif"
    /\ Len(bulan_aktif) = NRows
    /\ jumlah' = [r \in 1..NRows |-> JumlahPembayaran(PaymentCells(r))]
    /\ pc' = "kepatuhan"
    /\ UNCHANGED <<df_input, tahun_pajak, jenis_pajak, columns, kolom, tmt, col_idx,
                   payment_cols, bulan_aktif, kepatuhan, kepatuhan_fmt, error,
                   result, kategori, total>>

\* line 101: df.apply(hitung_kepatuhan, axis=1), one row
KepatuhanRow ==
    /\ pc = "kepatuhan"
    /\ Len(kepatuhan) < NRows
    /\ LET r == Len(kepatuhan) + 1
       IN  kepatuhan' = Append(kepatuhan,
                               hitung_kepatuhan(PaymentCells(r), bulan_aktif[r],
                                                jumlah[r]))
    /\ UNCHANGED <<df_input, tahun_pajak, jenis_pajak, pc, columns, kolom, tmt,
                   col_idx, payment_cols, bulan_aktif, jumlah, kepatuhan_fmt, error,
                   result, kategori, total>>

\* lines 103-106: format the score column and return
FormatAndReturn ==
    /\ pc = "kepatuhan"
    /\ Len(kepatuhan) = NRows
    /\ kepatuhan_fmt' = [r \in 1..NRows |-> FormatScore(kepatuhan[r])]
    /\ result' = [returned |-> TRUE, columns |-> columns,
                  payment_cols |-> payment_cols,
                  total |-> [r \in 1..NRows |-> FormatTotal(total[r])],
                  kepatuhan |-> [r \in 1..NRows |-> FormatScore(kepatuhan[r])]]
    /\ pc' = "returned"
    /\ UNCHANGED <<df_input, tahun_pajak, jenis_pajak, columns, kolom, tmt, col_idx,
                   payment_cols, bulan_aktif, jumlah, kepatuhan, error, kategori,
                   total>>

\* main, lines 160-162: the category of every row
Categorize ==
    /\ pc = "returned"
    /\ kategori' = [r \in DOMAIN result.kepatuhan |->
                      Kategori(ParseScore(result.kepatuhan[r]))]
    /\ pc' = "done"
    /\ UNCHANGED <<df_input, tahun_pajak, jenis_pajak, columns, kolom, tmt, col_idx,
                   payment_cols, bulan_aktif, jumlah, kepatuhan, kepatuhan_fmt,
                   error, result, total>>

Next ==
    \/ Resolve
    \/ RaiseSchemaError
    \/ PassRequired
    \/ RaiseKlasifikasiError
    \/ PassKlasifikasi
    \/ Rename
    \/ DetectColumn
    \/ RaiseNoPaymentColumns
    \/ PassPaymentColumns
    \/ BulanAktifRow
    \/ CountPayments
    \/ KepatuhanRow
    \/ FormatAndReturn
    \/ Categorize

Spec == Init /\ [][Next]_vars

(***************************************************************************)
(* Properties.  The definitions below restate what the specification says  *)
(* in terms of the uploaded dataset, independently of the operators above. *)
(***************************************************************************)
Ended == pc \in {"done", "failed"}

RawNorm(i) == NormalizeHeader(df_input.columns[i])

\* some header of the dataset matches one of the aliases, after trim+uppercase
HasAlias(aliases) ==
    \E i \in DOMAIN df_input.columns : RawNorm(i) \in Range(aliases)

\* the required canonical fields with no matching header
MissingRequired ==
    {f \in {"NM UNIT", "STATUS", "TMT"} :
        ~HasAlias(IF f = "NM UNIT" THEN alias_map.nm_unit
                  ELSE IF f = "STATUS" THEN alias_map.status
                  ELSE alias_map.tmt)}

\* column i of the dataset is one of the canonical columns
CanonicalAt(i) ==
    \/ RawNorm(i) \in {S_NM_UNIT, S_STATUS, S_TMT, S_KLASIFIKASI}
    \/ RawNorm(i) \in {kolom.nm_unit, kolom.status, kolom.tmt, kolom.klasifikasi}

\* conditions (i), (ii) and (iii) of the payment-column rule for column i
PeriodParsedAt(i) == ~IsNa(ParseHeader(RawNorm(i)))
YearMatchesAt(i) == ParseHeader(RawNorm(i)).year = tahun_pajak
SomeNumericAt(i) ==
    \E r \in DOMAIN df_input.rows :
        df_input.rows[r][i].kind \in {"num", "numstr"}

\* the columns the rule accepts
Accepted ==
    {i \in DOMAIN df_input.columns :
        /\ ~CanonicalAt(i)
        /\ SomeNumericAt(i)
        /\ LET dt == ParseHeader(RawNorm(i))
           IN  ~IsNa(dt) /\ dt.year = tahun_pajak}

\* list holds, in left-to-right order, name(i) for exactly the accepted columns
ListsAccepted(list, name(_)) ==
    LET acc == Accepted
    IN  /\ Len(list) = Cardinality(acc)
        /\ \A i \in acc :
              list[Cardinality({j \in acc : j <= i})] = name(i)

RawHeader(i) == df_input.columns[i]

\* row r's cell under the k-th returned payment column
PayCell(r, k) ==
    df_input.rows[r][CHOOSE i \in DOMAIN columns : columns[i] = payment_cols[k]]

Positive(r, k) == PayCell(r, k).kind \in {"num", "numstr"} /\ PayCell(r, k).val > 0

\* paymentCount of row r, over every accepted column
PositiveCount(r) == Cardinality({k \in 1..Len(payment_cols) : Positive(r, k)})

\* maxGap of row r: the longest run of non-paying columns
LongestZeroRun(r) ==
    LET L == Len(payment_cols)
        paid == {k \in 1..L : Positive(r, k)}
        runs == {n \in 0..L : \E i \in 1..(L - n + 1) :
                                 \A k \in i..(i + n - 1) : k \notin paid}
    IN  CHOOSE n \in runs : \A m \in runs : m <= n

\* h is n / d * 100 rounded to two decimals, in hundredths
IsRoundedPercent(h, n, d) ==
    LET diff == h * d - n * 10000
        a == IF diff < 0 THEN -diff ELSE diff
    IN  2 * a < d \/ (2 * a = d /\ h % 2 = 0)

\* row r's activation-date cell as uploaded
RawTmtCell(r) ==
    df_input.rows[r][CHOOSE i \in DOMAIN df_input.columns :
                        RawNorm(i) \in Range(alias_map.tmt)]

Labels == {"Tidak Patuh", "Kurang Patuh", "Patuh"}

\* ---------------------------------------------------------------- C1
\* C1: when the tax type is the entertainment option of the selectbox and no
\* header matches a classification alias, the invocation fails (with the
\* conditional schema error when the required columns resolve) and returns
\* nothing; for the other options a missing classification header never
\* causes that failure.
C1_EntertainmentRequiresKlasifikasi ==
    Ended =>
      /\ (jenis_pajak = EntertainmentVariant /\ ~HasAlias(alias_map.klasifikasi))
            => /\ pc = "failed"
               /\ result = NoResult
               /\ MissingRequired = {} => error.kind = "ConditionalSchemaError"
      /\ (jenis_pajak \in SelectboxJenisPajak \ {EntertainmentVariant})
            => error.kind # "ConditionalSchemaError"

\* ---------------------------------------------------------------- C2
\* C2 as stated: when a required field has no matching header the invocation
\* fails with a SchemaError that names the missing field (and no other) and
\* returns nothing; when all three resolve no SchemaError is raised.
C2_SchemaErrorNamesMissingField ==
    Ended =>
      /\ MissingRequired # {}
            => /\ error.kind = "SchemaError"
               /\ error.fields = MissingRequired
               /\ result = NoResult
      /\ MissingRequired = {} => error.kind # "SchemaError"

\* C2 amended: when a required field has no matching header the invocation
\* fails with a SchemaError whose one fixed message lists all three required
\* fields, whichever is missing, and returns nothing; when all three resolve
\* no SchemaError is raised.
C2_SchemaErrorListsAllRequired ==
    Ended =>
      /\ MissingRequired # {}
            => /\ pc = "failed"
               /\ error.kind = "SchemaError"
               /\ error.fields = {"NM UNIT", "STATUS", "TMT"}
               /\ result = NoResult
      /\ MissingRequired = {} => error.kind # "SchemaError"

\* a dataset missing only the activation-date column has failed
C2_Witness ==
    /\ pc = "failed"
    /\ error.kind = "SchemaError"
    /\ MissingRequired = {"TMT"}

\* ---------------------------------------------------------------- C3
\* C3: the score of every scored row is 0.0 when activeMonths = 0, else 100.0
\* when maxGap < 3, else round(paymentCount / activeMonths * 100, 2), with
\* paymentCount counted over every accepted column and maxGap the longest
\* run of non-paying columns.
C3_ScoreRule ==
    \A r \in DOMAIN kepatuhan :
        /\ jumlah[r] = PositiveCount(r)
        /\ IF bulan_aktif[r] = 0 THEN kepatuhan[r] = 0
           ELSE IF LongestZeroRun(r) < 3 THEN kepatuhan[r] = 10000
           ELSE IsRoundedPercent(kepatuhan[r], PositiveCount(r), bulan_aktif[r])

\* a row active for 3 months with 2 payments and a gap of 3: 66.67
C3_Witness ==
    \E r \in DOMAIN kepatuhan :
        /\ bulan_aktif[r] = 3
        /\ LongestZeroRun(r) >= 3
        /\ PositiveCount(r) = 2
        /\ kepatuhan[r] = 6667

\* ---------------------------------------------------------------- C4
\* C4: the score of every scored row lies in [0, 100].
C4_ScoreWithin0And100 ==
    \A r \in DOMAIN kepatuhan : 0 <= kepatuhan[r] /\ kepatuhan[r] <= 10000

\* ---------------------------------------------------------------- C5
\* C5: activeMonths is in 0..12: 0 for a null or unparseable activation date
\* (and then the score is 0.0), 12 for a date on or before January 1 of the
\* fiscal year, 13 minus the month for a date inside the fiscal year, 0 for
\* a date after December 31 of the fiscal year.
C5_ActiveMonths ==
    \A r \in DOMAIN bulan_aktif :
        LET c == RawTmtCell(r)
        IN  /\ bulan_aktif[r] \in 0..12
            /\ c.kind # "date"
                  => /\ bulan_aktif[r] = 0
                     /\ r \in DOMAIN kepatuhan => kepatuhan[r] = 0
            /\ (c.kind = "date" /\ c.ts.year < tahun_pajak) => bulan_aktif[r] = 12
            /\ (c.kind = "date" /\ c.ts.year = tahun_pajak)
                  => bulan_aktif[r] = 13 - c.ts.month
            /\ (c.kind = "date" /\ c.ts.year > tahun_pajak) => bulan_aktif[r] = 0

\* a row activated in October of the fiscal year has 3 active months
C5_Witness ==
    \E r \in DOMAIN bulan_aktif :
        /\ RawTmtCell(r).kind = "date"
        /\ RawTmtCell(r).ts.year = tahun_pajak
        /\ RawTmtCell(r).ts.month = 10
        /\ bulan_aktif[r] = 3

\* ---------------------------------------------------------------- C6
\* C6: every row of a processed dataset gets exactly one of the three
\* labels, by the bins (-inf,50], (50,99.9], (99.9,100]; no score is left
\* without a label.
C6_EveryEntityLabelled ==
    pc = "done" =>
      /\ DOMAIN kategori = DOMAIN kepatuhan
      /\ \A r \in DOMAIN kategori :
            /\ kategori[r] \in Labels
            /\ kepatuhan[r] <= 5000 => kategori[r] = "Tidak Patuh"
            /\ (5000 < kepatuhan[r] /\ kepatuhan[r] <= 9990)
                  => kategori[r] = "Kurang Patuh"
            /\ (9990 < kepatuhan[r] /\ kepatuhan[r] <= 10000)
                  => kategori[r] = "Patuh"

\* ---------------------------------------------------------------- C7
\* C7 as stated: the returned list holds the original header strings of
\* exactly the non-canonical columns whose header parses as a period of the
\* fiscal year and that hold a numeric cell, in left-to-right order.
C7_ListKeepsOriginalHeaders ==
    result.returned => ListsAccepted(result.payment_cols, RawHeader)

\* C7 amended: the returned list holds the normalised (trimmed, uppercased)
\* header strings of exactly the non-canonical columns whose header parses
\* as a period of the fiscal year and that hold a numeric cell, in
\* left-to-right order; no canonical column is in it.
C7_ListKeepsNormalizedHeaders ==
    result.returned =>
      /\ ListsAccepted(result.payment_cols, RawNorm)
      /\ \A i \in DOMAIN df_input.columns :
            CanonicalAt(i) => RawNorm(i) \notin Range(result.payment_cols)

\* a returned list of one column, another column of the right year having
\* been left out for holding no numeric cell
C7_Witness ==
    /\ result.returned
    /\ Len(result.payment_cols) = 1
    /\ \E i \in DOMAIN df_input.columns :
          /\ ~CanonicalAt(i) /\ PeriodParsedAt(i) /\ YearMatchesAt(i)
          /\ ~SomeNumericAt(i)

\* ---------------------------------------------------------------- C8
\* C8: once the schema has resolved, the invocation fails with
\* NoPaymentColumnsError exactly when no column was accepted after the whole
\* scan, and then nothing is returned.
C8_NoPaymentColumnsError ==
    (Ended /\ error.kind \notin {"SchemaError", "ConditionalSchemaError"}) =>
      /\ error.kind = "NoPaymentColumnsError" <=> Accepted = {}
      /\ error.kind = "NoPaymentColumnsError"
            => /\ col_idx > Len(columns)
               /\ payment_cols = <<>>
               /\ result = NoResult

\* every date-like candidate is of another year: the invocation has failed
C8_Witness ==
    /\ pc = "failed"
    /\ error.kind = "NoPaymentColumnsError"
    /\ \E i \in DOMAIN df_input.columns :
          ~CanonicalAt(i) /\ PeriodParsedAt(i) /\ ~YearMatchesAt(i)

C10_NoPaymentNeverFullScore ==
    \A r \in DOMAIN kepatuhan :
        (Len(payment_cols) >= 3 /\ bulan_aktif[r] > 0) =>
          /\ PositiveCount(r) = 0 => kepatuhan[r] = 0
          /\ (LongestZeroRun(r) < 3 /\ kepatuhan[r] = 10000) => PositiveCount(r) >= 1

\* an active row with three or more accepted columns and no payment scores 0
C10_Witness ==
    \E r \in DOMAIN kepatuhan :
        /\ Len(payment_cols) >= 3
        /\ bulan_aktif[r] > 0
        /\ PositiveCount(r) = 0
        /\ kepatuhan[r] = 0

====
